---- MODULE Spec2Model ----
(***************************************************************************)
(* A model of the e-paper display driver of src/epd.go.                    *)
(*                                                                         *)
(* The driver is a straight-line protocol generator: every public method   *)
(* (Mode, Draw, Clear, Sleep) expands into a sequence of primitive device  *)
(* operations (a pin write, a one-byte transmit, a read of the busy pin, a *)
(* time.Sleep).  The model keeps that structure: each Go function is an    *)
(* operator that yields the sequence of primitives its body performs, and  *)
(* the state machine executes one primitive per step, with Draw's loops    *)
(* kept as the loop variables i and j.  The device side (what the pins and *)
(* the bus carry) is observed by history variables.                        *)
(***************************************************************************)
EXTENDS Integers, Sequences, FiniteSets, TLC

(***************************************************************************)
(* Panel geometry and constants of the source.                             *)
(***************************************************************************)
\* New(): &EPD{296, 128, ...} (Height first, then Width)
Height == 296
Width == 128

\* const ( FullUpdate Mode = iota; PartialUpdate )
FullUpdate == 0
PartialUpdate == 1
Modes == {FullUpdate, PartialUpdate}

\* var ErrInvalidImageSize = errors.New("invalid image size")
ErrInvalidImageSize == "invalid image size"
\* Draw's nil error, and the "no return value" of Mode, Clear and Sleep
nil == "nil"
void == "void"

\* fullUpdate / partialUpdate lookup tables
fullUpdate ==
  << 80, 170, 85, 170, 17, 0,
     0, 0, 0, 0, 0, 0,
     0, 0, 0, 0, 0, 0,
     0, 0, 255, 255, 31, 0,
     0, 0, 0, 0, 0, 0 >>

partialUpdate ==
  << 16, 24, 24, 8, 24, 24,
     8, 0, 0, 0, 0, 0,
     0, 0, 0, 0, 0, 0,
     0, 0, 19, 20, 68, 18,
     0, 0, 0, 0, 0, 0 >>

(***************************************************************************)
(* Go integer conversions and bit operations used by the driver.           *)
(***************************************************************************)
\* byte(x): conversion of an int to uint8 keeps the low 8 bits
byte(x) == x % 256
\* uint16(x): conversion of an int to uint16 keeps the low 16 bits
uint16(x) == x % 65536
\* x >> 3 on an unsigned value
shr3(x) == x \div 8
\* x >> 8 on an unsigned value
shr8(x) == x \div 256
\* x & 0xFF
lowByte(x) == x % 256
\* 0x80 >> s
mask80(s) == 128 \div (2 ^ s)
\* b &= ^m for a one-bit mask m: clears bit m of b when it is set
AndNot(b, m) == IF (b \div m) % 2 = 1 THEN b - m ELSE b

(***************************************************************************)
(* The part of image/color and image the driver relies on.  A colour is a  *)
(* value of a concrete colour type; an interface comparison (c !=          *)
(* color.White) compares the dynamic type and the value.                   *)
(***************************************************************************)
Gray16(y) == [typ |-> "Gray16", ch |-> <<y>>]
Gray(y) == [typ |-> "Gray", ch |-> <<y>>]
RGBA8(r, g, b, a) == [typ |-> "RGBA", ch |-> <<r, g, b, a>>]
RGBA64(r, g, b, a) == [typ |-> "RGBA64", ch |-> <<r, g, b, a>>]

\* color.White = Gray16{0xffff}, color.Black = Gray16{0}
ColorWhite == Gray16(65535)
ColorBlack == Gray16(0)

\* pixel.RGBA(): the 16-bit-per-channel alpha-premultiplied components
RGBA(c) ==
  CASE c.typ = "Gray16" -> <<c.ch[1], c.ch[1], c.ch[1], 65535>>
    [] c.typ = "Gray" -> <<c.ch[1] * 257, c.ch[1] * 257, c.ch[1] * 257, 65535>>
    [] c.typ = "RGBA" -> <<c.ch[1] * 257, c.ch[2] * 257, c.ch[3] * 257, c.ch[4] * 257>>
    [] c.typ = "RGBA64" -> c.ch

\* An image is an *image.Uniform of colour C (infinite bounds) or a raster
\* with bounds min .. min+size whose pixels follow the pattern pat.
Uniform(c) == [typ |-> "Uniform", C |-> c, min |-> <<0, 0>>, size |-> <<0, 0>>, pat |-> "none"]
Raster(mn, sz, p) == [typ |-> "Raster", C |-> ColorBlack, min |-> mn, size |-> sz, pat |-> p]
NoImage == [typ |-> "none", C |-> ColorBlack, min |-> <<0, 0>>, size |-> <<0, 0>>, pat |-> "none"]

\* image.White, image.Black
ImageWhite == Uniform(ColorWhite)
ImageBlack == Uniform(ColorBlack)

\* The colour a raster's pattern holds at (x, y)
PatColor(p, x, y) ==
  CASE p = "checker" -> IF (x + y) % 2 = 0 THEN RGBA8(255, 255, 255, 255) ELSE RGBA8(0, 0, 0, 255)
    [] p = "glyph" -> IF ((x % 8) * 3 + y) % 5 < 2 THEN RGBA8(0, 0, 0, 255) ELSE RGBA8(255, 255, 255, 255)
    [] p = "edge" -> IF x % 2 = 0 THEN RGBA64(237, 0, 0, 65535) ELSE RGBA64(238, 0, 0, 65535)
    [] OTHER -> RGBA8(255, 255, 255, 255)

\* img.Bounds().Size(): Max - Min; image.Uniform spans -1e9 .. 1e9
BoundsSize(img) ==
  IF img.typ = "Uniform" THEN <<2000000000, 2000000000>> ELSE img.size

\* img.At(x, y): a uniform image holds C everywhere; a raster holds the zero
\* colour outside its bounds
At(img, x, y) ==
  IF img.typ = "Uniform" THEN img.C
  ELSE IF /\ img.min[1] <= x /\ x < img.min[1] + img.size[1]
          /\ img.min[2] <= y /\ y < img.min[2] + img.size[2]
       THEN PatColor(img.pat, x, y)
       ELSE RGBA8(0, 0, 0, 0)

(***************************************************************************)
(* isdark and the packing of 8 pixels into a byte.                         *)
(***************************************************************************)
\* A channel clamped to 1000.  TLC's integers are 32 bits wide and
\* 0.299 * 65535^2 does not fit; a channel of 1000 or more already makes the
\* weighted sum exceed 16900 on its own (0.114 * 1000^2 = 114000), so the
\* clamp leaves the comparison's outcome as it is.
sat(c) == IF c > 1000 THEN 1000 ELSE c

\* The weighted sum of squares, times 1000:
\* 0.299*Pow(r,2) + 0.587*Pow(g,2) + 0.114*Pow(b,2)
luma2(q) ==
  299 * sat(q[1]) * sat(q[1]) + 587 * sat(q[2]) * sat(q[2]) + 114 * sat(q[3]) * sat(q[3])

\* the comparison with < in place of <=
isdarkStrict(q) == luma2(q) < 16900000

\* isdark(r, g, b, _): math.Sqrt(weighted sum) <= 130, on float64.  On integer
\* channels the weighted sum differs from 130^2 = 16900 by at least 0.001
\* unless it equals it, far more than the rounding of the float operations;
\* it equals it only at (130, 130, 130), where the float64 sum is 16900 or one
\* ulp less (with or without fused multiply-add) and the square root is 130.
\* So the comparison is the integer one; alpha (q[4]) is not read.
isdark(q) == luma2(q) <= 16900000

\* the packing with the first pixel in the low bit
RECURSIVE packLsbFirst(_, _, _, _, _)
packLsbFirst(img, j, i, px, b) ==
  IF px < 8
  THEN packLsbFirst(img, j, i, px + 1,
            IF isdark(RGBA(At(img, j + px, i))) THEN AndNot(b, 2 ^ (px % 8)) ELSE b)
  ELSE b

\* The inner loop of Draw: b starts at 0xFF and loses bit 0x80 >> (px % 8)
\* for every dark pixel (j+px, i), px = 0..7
RECURSIVE pack(_, _, _, _, _)
pack(img, j, i, px, b) ==
  IF px < 8
  THEN pack(img, j, i, px + 1,
            IF isdark(RGBA(At(img, j + px, i))) THEN AndNot(b, mask80(px % 8)) ELSE b)
  ELSE b

(***************************************************************************)
(* Primitive device operations, and the driver's functions as the sequence *)
(* of primitives their bodies perform.                                     *)
(***************************************************************************)
pinHigh(p) == [k |-> "pin", a |-> p, lv |-> "HIGH", v |-> <<>>]
pinLow(p) == [k |-> "pin", a |-> p, lv |-> "LOW", v |-> <<>>]
\* epd.transmit(bytes...) issued by function by ("command" or "data")
transmit(by, bytes) == [k |-> "tx", a |-> by, lv |-> "", v |-> bytes]
\* time.Sleep(ms * time.Millisecond)
timeSleep(ms) == [k |-> "wait", a |-> "", lv |-> "", v |-> <<ms>>]
\* the busy-poll loop of idle()
busyPoll == [k |-> "idle", a |-> "busy", lv |-> "", v |-> <<>>]

reset ==
  << pinHigh("rst"), timeSleep(200), pinLow("rst"), timeSleep(10),
     pinHigh("rst"), timeSleep(200) >>

\* command() asserting chip-select and transmitting before it sets dc
commandCsFirst(c) ==
  << pinLow("cs"), transmit("command", <<c>>), pinLow("dc"), pinHigh("cs") >>

command(c) ==
  << pinLow("dc"), pinLow("cs"), transmit("command", <<c>>), pinHigh("cs") >>

\* data() selecting the command register, as command() does
dataDcLow(d) ==
  << pinLow("dc"), pinLow("cs"), transmit("data", <<d>>), pinHigh("cs") >>

data(d) ==
  << pinHigh("dc"), pinLow("cs"), transmit("data", <<d>>), pinHigh("cs") >>

idle == << busyPoll >>

\* data(b) for every b of a byte slice, in order
RECURSIVE dataAll(_)
dataAll(bs) == IF bs = <<>> THEN <<>> ELSE data(Head(bs)) \o dataAll(Tail(bs))

lut(mode) == IF mode = PartialUpdate THEN partialUpdate ELSE fullUpdate

\* Mode with the two bytes of Height-1 swapped
ModeHeightBigEndian(mode) ==
  reset
  \o command(1)
  \o data(byte(lowByte(shr8(Height - 1))))
  \o data(byte(lowByte(Height - 1)))
  \o data(0)
  \o command(12) \o data(215) \o data(214) \o data(157)
  \o command(44) \o data(168)
  \o command(58) \o data(26)
  \o command(59) \o data(8)
  \o command(17) \o data(3)
  \o command(50) \o dataAll(lut(mode))

\* Mode with a VCOM value that depends on the mode
ModePartialConfig(mode) ==
  reset
  \o command(1)
  \o data(byte(lowByte(Height - 1)))
  \o data(byte(lowByte(shr8(Height - 1))))
  \o data(0)
  \o command(12) \o data(215) \o data(214) \o data(157)
  \o command(44) \o data(IF mode = PartialUpdate THEN 168 ELSE 160)
  \o command(58) \o data(26)
  \o command(59) \o data(8)
  \o command(17) \o data(3)
  \o command(50) \o dataAll(lut(mode))

Mode(mode) ==
  reset
  \o command(1)
  \o data(byte(lowByte(Height - 1)))
  \o data(byte(lowByte(shr8(Height - 1))))
  \o data(0)
  \o command(12) \o data(215) \o data(214) \o data(157)
  \o command(44) \o data(168)
  \o command(58) \o data(26)
  \o command(59) \o data(8)
  \o command(17) \o data(3)
  \o command(50) \o dataAll(lut(mode))

\* Sleep sending its parameter before its command
SleepDataFirst == data(1) \o command(16)

\* Sleep followed by an idle wait
SleepThenIdle == command(16) \o data(1) \o idle

Sleep == command(16) \o data(1)

\* turnOnDisplay returning without the idle wait
turnOnDisplayNoWait == command(34) \o data(196) \o command(32) \o command(255)

turnOnDisplay == command(34) \o data(196) \o command(32) \o command(255) \o idle

\* window with the bytes of y0 and y1 high byte first
windowYBigEndian(x0, x1, y0, y1) ==
  command(68)
  \o data(lowByte(shr3(x0)))
  \o data(lowByte(shr3(x1)))
  \o command(69)
  \o data(byte(lowByte(shr8(y0))))
  \o data(byte(lowByte(y0)))
  \o data(byte(lowByte(shr8(y1))))
  \o data(byte(lowByte(y1)))

window(x0, x1, y0, y1) ==
  command(68)
  \o data(lowByte(shr3(x0)))
  \o data(lowByte(shr3(x1)))
  \o command(69)
  \o data(byte(lowByte(y0)))
  \o data(byte(lowByte(shr8(y0))))
  \o data(byte(lowByte(y1)))
  \o data(byte(lowByte(shr8(y1))))

\* cursor returning without the idle wait
cursorNoWait(x, y) ==
  command(78)
  \o data(lowByte(shr3(x)))
  \o command(79)
  \o data(byte(lowByte(y)))
  \o data(byte(lowByte(shr8(y))))

cursor(x, y) ==
  command(78)
  \o data(lowByte(shr3(x)))
  \o command(79)
  \o data(byte(lowByte(y)))
  \o data(byte(lowByte(shr8(y))))
  \o idle

(***************************************************************************)
(* State.                                                                  *)
(***************************************************************************)
VARIABLES
  task,      \* the public call in flight: [op, arg]; op = "none" between calls
  img,       \* Draw's parameter img
  pc,        \* the part of the body being executed
  i, j,      \* Draw's loop variables
  todo,      \* the primitives of the current part still to be performed
  err,       \* the value Draw (or isdark, called on its own) is about to return
  napping,   \* idle() read busy = 1 and is in its time.Sleep
  pins,      \* the level last driven on rst, dc and cs ("UNSET": never driven)
  ret,       \* the call that has just returned: [op, arg, err, draw]
  nTx,       \* bytes transmitted by the call in flight (or the last one)
  nPin,      \* pin writes made by that call
  busyRead,  \* whether that call has read the busy pin
  cmdCount,  \* per command byte, how often that call sent it
  lastTx,    \* the last transmit call: its bytes, issuer and the dc, cs levels
  lastCmd,   \* the bus as the controller sees it: the last byte sent with dc
  args,      \*   LOW, and the bytes sent with dc HIGH since
  closed,    \*   and the command before it with the number of its data bytes
  capture,   \* the operations whose primitives are recorded in trace
  trace,     \* the primitives of the call in flight (or the last one), in order
  saved,     \* per mode, the trace of the last completed Mode call
  lastRead,  \* what that call's last read of the busy pin said: "busy" (the
             \*   value 1), "ready" (any other value), "none" (no read yet)
  sinceRead, \* bytes that call has transmitted since that read (or its entry)
  other,     \* the primitives still to be performed by the call that a second
             \*   goroutine makes on the same driver
  otherPc,   \* where that goroutine is: "start", in its call ("Sleep"), "done"
  overlap,   \* whether two calls have been in flight at the same time
  crossed    \* the first goroutine's call in flight and the bytes it had sent
             \*   when the second goroutine last transmitted a byte

ctl == <<task, img, pc, i, j, todo, err, napping>>
bus == <<lastTx, lastCmd, args, closed>>
counts == <<nTx, nPin, busyRead, cmdCount>>
poll == <<lastRead, sinceRead>>
conc == <<other, otherPc, overlap, crossed>>
vars == <<task, img, pc, i, j, todo, err, napping, pins, ret, nTx, nPin, busyRead,
          cmdCount, lastTx, lastCmd, args, closed, capture, trace, saved,
          lastRead, sinceRead, other, otherPc, overlap, crossed>>

NoTask == [op |-> "none", arg |-> 0]
NoRet == [op |-> "none", arg |-> 0, err |-> void, draw |-> void]
NoTx == [by |-> "", v |-> <<>>, dc |-> "", cs |-> ""]
NoCmd == -1

\* The values a read of the busy pin can yield (ReadablePin.Read() uint8):
\* idle, busy, and a value that is neither 0 nor 1
BusyValues == {0, 1, 2}

\* New(rst, dc, cs, busy, transmit): stores the pins, drives none of them
New(cap) ==
  /\ task = NoTask
  /\ img = NoImage
  /\ pc = "idle"
  /\ i = 0
  /\ j = 0
  /\ todo = <<>>
  /\ err = nil
  /\ napping = FALSE
  /\ pins = [rst |-> "UNSET", dc |-> "UNSET", cs |-> "UNSET"]
  /\ ret = NoRet
  /\ nTx = 0
  /\ nPin = 0
  /\ busyRead = FALSE
  /\ cmdCount = <<>>
  /\ lastTx = NoTx
  /\ lastCmd = NoCmd
  /\ args = <<>>
  /\ closed = [cmd |-> NoCmd, n |-> 0]
  /\ capture = cap
  /\ trace = <<>>
  /\ saved = [m \in Modes |-> <<>>]
  /\ lastRead = "none"
  /\ sinceRead = 0
  /\ other = <<>>
  /\ otherPc = "start"
  /\ overlap = FALSE
  /\ crossed = [op |-> "none", n |-> 0]

(***************************************************************************)
(* Calls: a caller enters a public method (or, for the claims about them,  *)
(* one of the addressing helpers on its own).                              *)
(***************************************************************************)
Enter(op, arg, label, prims) ==
  /\ pc = "idle"
  /\ task' = [op |-> op, arg |-> arg]
  /\ pc' = label
  /\ todo' = prims
  /\ i' = 0
  /\ j' = 0
  /\ err' = nil
  /\ ret' = NoRet
  /\ nTx' = 0
  /\ nPin' = 0
  /\ busyRead' = FALSE
  /\ cmdCount' = <<>>
  /\ trace' = <<>>
  /\ lastRead' = "none"
  /\ sinceRead' = 0
  /\ overlap' = (overlap \/ otherPc = "Sleep")
  /\ UNCHANGED <<napping, pins, bus, capture, saved, other, otherPc, crossed>>

\* a Mode that remembers it has reset the panel and skips reset() from then on
CallModeResetOnce(mode) ==
  /\ Enter("Mode", mode, "Mode",
           IF pins.rst = "UNSET" THEN Mode(mode)
           ELSE SubSeq(Mode(mode), Len(reset) + 1, Len(Mode(mode))))
  /\ UNCHANGED img

CallMode(mode) == Enter("Mode", mode, "Mode", Mode(mode)) /\ UNCHANGED img

CallSleep == Enter("Sleep", 0, "Sleep", Sleep) /\ UNCHANGED img

CallDraw(im) == Enter("Draw", im, "Draw", <<>>) /\ img' = im

CallClear(c) == Enter("Clear", c, "Clear", <<>>) /\ UNCHANGED img

\* window and cursor called on their own, as a test of the driver would
CallWindow(x0, x1, y0, y1) ==
  Enter("window", <<x0, x1, y0, y1>>, "window", window(x0, x1, y0, y1)) /\ UNCHANGED img

CallCursor(x, y) == Enter("cursor", <<x, y>>, "cursor", cursor(x, y)) /\ UNCHANGED img

\* isdark called on its own, on the four values a pixel's RGBA() yields
CallIsdark(q) == Enter("isdark", q, "isdark", <<>>) /\ UNCHANGED img

\* the body of isdark: the one comparison, whose outcome it returns
IsdarkBody ==
  /\ pc = "isdark"
  /\ err' = isdark(task.arg)
  /\ pc' = "ret"
  /\ UNCHANGED <<task, img, i, j, todo, napping, pins, ret, counts, bus, capture, trace,
                 saved, poll, conc>>

(***************************************************************************)
(* Clear and the head of Draw.                                             *)
(***************************************************************************)
\* var img = image.White; if c != color.White { img = image.Black }
ClearImage(c) == IF c # ColorWhite THEN ImageBlack ELSE ImageWhite

\* Clear: picks the uniform image and calls Draw with it
ClearEntry ==
  /\ pc = "Clear"
  /\ img' = ClearImage(task.arg)
  /\ pc' = "Draw"
  /\ UNCHANGED <<task, i, j, todo, err, napping, pins, ret, counts, bus, capture, trace, saved, poll, conc>>

isvertical(im) == BoundsSize(im)[1] = Width /\ BoundsSize(im)[2] = Height
uniform(im) == im.typ = "Uniform"

\* the size test on the width alone
DrawRejectsWidthOnly(im) == ~uniform(im) /\ BoundsSize(im)[1] # Width

\* the size test without the special case for uniform images
DrawRejectsUniformToo(im) == ~isvertical(im)

\* if !uniform && !isvertical { return ErrInvalidImageSize }
DrawRejects(im) == ~uniform(im) /\ ~isvertical(im)

\* Draw waking the panel with a hardware reset before it sets the window
DrawWindowAfterReset == reset \o window(0, byte(Width - 1), 0, uint16(Height - 1))

\* the window set to the sizes in place of the last column and row
DrawWindowBySize == window(0, byte(Width), 0, uint16(Height))

\* epd.window(0, byte(epd.Width-1), 0, uint16(epd.Height-1))
DrawWindow == window(0, byte(Width - 1), 0, uint16(Height - 1))

DrawEntry ==
  /\ pc = "Draw"
  /\ IF DrawRejects(img)
     THEN pc' = "ret" /\ err' = ErrInvalidImageSize /\ todo' = <<>>
     ELSE pc' = "window" /\ err' = err /\ todo' = DrawWindow
  /\ UNCHANGED <<task, img, i, j, napping, pins, ret, counts, bus, capture, trace, saved, poll, conc>>

(***************************************************************************)
(* The body in execution.  Draw's body is cut into parts: the window       *)
(* setup, per row the cursor call and the WRITE_RAM command, per 8 pixels  *)
(* the data byte, and the final turnOnDisplay.                             *)
(***************************************************************************)
\* the primitives of part label of Draw, at row r and pixel column c
Part(label, r, c) ==
  CASE label = "cursor" -> cursor(0, uint16(r))
    [] label = "writeram" -> command(36)
    [] label = "pixels" -> data(byte(pack(img, c, r, 0, 255)))
    [] label = "show" -> turnOnDisplay
    [] OTHER -> <<>>

Running == todo # <<>>
Prim == Head(todo)

\* the row loop running one row too far (i <= epd.Height)
RowOrShowInclusive(r) == IF r <= Height THEN "cursor" ELSE "show"

\* for i := 0; i < epd.Height; i++ { ... }, then turnOnDisplay
RowOrShow(r) == IF r < Height THEN "cursor" ELSE "show"

\* [pc, i, j] after the last primitive of the current part
After ==
  CASE pc = "window" /\ task.op \in {"Draw", "Clear"} ->
         [pc |-> RowOrShow(0), i |-> 0, j |-> 0]
    [] pc = "cursor" /\ task.op \in {"Draw", "Clear"} -> [pc |-> "writeram", i |-> i, j |-> 0]
    [] pc = "writeram" ->
         IF 0 < Width THEN [pc |-> "pixels", i |-> i, j |-> 0]
         ELSE [pc |-> RowOrShow(i + 1), i |-> i + 1, j |-> 0]
    [] pc = "pixels" ->
         IF j + 8 < Width THEN [pc |-> "pixels", i |-> i, j |-> j + 8]
         ELSE [pc |-> RowOrShow(i + 1), i |-> i + 1, j |-> 0]
    [] OTHER -> [pc |-> "ret", i |-> 0, j |-> 0]

Advance ==
  IF Len(todo) > 1
  THEN todo' = Tail(todo) /\ UNCHANGED <<pc, i, j>>
  ELSE /\ pc' = After.pc
       /\ i' = After.i
       /\ j' = After.j
       /\ todo' = Part(After.pc, After.i, After.j)

Stay == UNCHANGED <<pc, i, j, todo>>

captured == task.op \in capture
Record(e) == trace' = IF captured THEN Append(trace, e) ELSE trace

\* p.High() / p.Low() on rst, dc or cs
PinWrite ==
  /\ Running
  /\ Prim.k = "pin"
  /\ pins' = [pins EXCEPT ![Prim.a] = Prim.lv]
  /\ nPin' = nPin + 1
  /\ Record(Prim)
  /\ Advance
  /\ UNCHANGED <<task, img, err, napping, ret, nTx, busyRead, cmdCount, bus, capture, saved,
               poll, conc>>

Bump(f, c) == IF c \in DOMAIN f THEN [f EXCEPT ![c] = f[c] + 1] ELSE f @@ (c :> 1)

\* epd.transmit(b): the byte goes out under the dc and cs levels of the moment;
\* the controller takes it as a command when dc is LOW, as data otherwise
Transmit ==
  /\ Running
  /\ Prim.k = "tx"
  /\ nTx' = nTx + Len(Prim.v)
  /\ lastTx' = [by |-> Prim.a, v |-> Prim.v, dc |-> pins.dc, cs |-> pins.cs]
  /\ IF pins.dc = "LOW"
     THEN /\ closed' = [cmd |-> lastCmd, n |-> Len(args)]
          /\ lastCmd' = Prim.v[1]
          /\ args' = <<>>
          /\ cmdCount' = Bump(cmdCount, Prim.v[1])
     ELSE /\ args' = args \o Prim.v
          /\ UNCHANGED <<closed, lastCmd, cmdCount>>
  /\ Record(Prim)
  /\ Advance
  /\ sinceRead' = sinceRead + Len(Prim.v)
  /\ UNCHANGED <<task, img, err, napping, pins, ret, nPin, busyRead, capture, saved,
               lastRead, conc>>

\* idle() with a timeout: it gives up after one read, whatever the read says
BusyReadGivesUp ==
  /\ Running
  /\ Prim.k = "idle"
  /\ ~napping
  /\ \E b \in BusyValues :
       /\ Record([k |-> "read", a |-> "busy", lv |-> "", v |-> <<b>>])
       /\ napping' = FALSE
       /\ Advance
       /\ lastRead' = IF b = 1 THEN "busy" ELSE "ready"
  /\ busyRead' = TRUE
  /\ sinceRead' = 0
  /\ UNCHANGED <<task, img, err, pins, ret, nTx, nPin, cmdCount, bus, capture, saved, conc>>

\* idle(): for epd.busy.Read() == 0x1 { time.Sleep(200ms) }
BusyRead ==
  /\ Running
  /\ Prim.k = "idle"
  /\ ~napping
  /\ \E b \in BusyValues :
       /\ Record([k |-> "read", a |-> "busy", lv |-> "", v |-> <<b>>])
       /\ IF b = 1 THEN napping' = TRUE /\ Stay ELSE napping' = FALSE /\ Advance
       /\ lastRead' = IF b = 1 THEN "busy" ELSE "ready"
  /\ busyRead' = TRUE
  /\ sinceRead' = 0
  /\ UNCHANGED <<task, img, err, pins, ret, nTx, nPin, cmdCount, bus, capture, saved, conc>>

\* the time.Sleep(200ms) inside idle's loop, then back to the read
Nap ==
  /\ Running
  /\ napping
  /\ napping' = FALSE
  /\ Record(timeSleep(200))
  /\ Stay
  /\ UNCHANGED <<task, img, err, pins, ret, counts, bus, capture, saved, poll, conc>>

\* a time.Sleep of reset()
Wait ==
  /\ Running
  /\ Prim.k = "wait"
  /\ Record(Prim)
  /\ Advance
  /\ UNCHANGED <<task, img, err, napping, pins, ret, counts, bus, capture, saved, poll, conc>>

\* the call returns to its caller; Clear drops Draw's error (_ = epd.Draw(img))
Return ==
  /\ pc = "ret"
  /\ ret' = [op |-> task.op,
             arg |-> task.arg,
             err |-> IF task.op = "Draw" THEN err ELSE void,
             draw |-> IF task.op \in {"Draw", "Clear"} THEN err ELSE void]
  /\ saved' = IF task.op = "Mode" /\ captured
              THEN [saved EXCEPT ![task.arg] = trace] ELSE saved
  /\ task' = NoTask
  /\ img' = NoImage
  /\ pc' = "idle"
  /\ err' = nil
  /\ todo' = <<>>
  /\ UNCHANGED <<i, j, napping, pins, counts, bus, capture, trace, poll, conc>>

Exec == PinWrite \/ Transmit \/ BusyRead \/ Nap \/ Wait \/ Return

(***************************************************************************)
(* A second goroutine that calls Sleep on the same driver.  The driver     *)
(* holds no lock, so the primitives of its call interleave freely with     *)
(* those of a call the first goroutine is in; both act on the same pins    *)
(* and the same bus.                                                       *)
(***************************************************************************)
main == <<task, img, pc, i, j, todo, err, napping, ret, counts, capture, trace, saved, poll>>

\* go epd.Sleep()
GoSleep ==
  /\ otherPc = "start"
  /\ otherPc' = "Sleep"
  /\ other' = Sleep
  /\ overlap' = (overlap \/ task.op # "none")
  /\ UNCHANGED <<main, pins, bus, crossed>>

\* p.High() / p.Low() by the second goroutine
OtherPinWrite ==
  /\ other # <<>>
  /\ Head(other).k = "pin"
  /\ pins' = [pins EXCEPT ![Head(other).a] = Head(other).lv]
  /\ other' = Tail(other)
  /\ UNCHANGED <<main, bus, otherPc, overlap, crossed>>

\* epd.transmit(b) by the second goroutine, under the levels of the moment
OtherTransmit ==
  /\ other # <<>>
  /\ Head(other).k = "tx"
  /\ lastTx' = [by |-> Head(other).a, v |-> Head(other).v, dc |-> pins.dc, cs |-> pins.cs]
  /\ IF pins.dc = "LOW"
     THEN /\ closed' = [cmd |-> lastCmd, n |-> Len(args)]
          /\ lastCmd' = Head(other).v[1]
          /\ args' = <<>>
     ELSE /\ args' = args \o Head(other).v
          /\ UNCHANGED <<closed, lastCmd>>
  /\ crossed' = [op |-> task.op, n |-> nTx]
  /\ other' = Tail(other)
  /\ UNCHANGED <<main, pins, otherPc, overlap>>

\* the second goroutine's Sleep returns
OtherReturn ==
  /\ otherPc = "Sleep"
  /\ other = <<>>
  /\ otherPc' = "done"
  /\ UNCHANGED <<main, pins, bus, other, overlap, crossed>>

(***************************************************************************)
(* Inputs.                                                                 *)
(***************************************************************************)
\* colours a caller may pass to Clear: the two named colours, white and black
\* in other colour types, a saturated colour, the zero colour
Colors ==
  { ColorWhite, ColorBlack, RGBA8(255, 255, 255, 255), Gray(255),
    RGBA8(200, 30, 30, 255), RGBA8(0, 0, 0, 0) }

\* rasters of exactly the panel's size, at the origin and offset
PanelRasters ==
  { Raster(<<0, 0>>, <<Width, Height>>, "checker"),
    Raster(<<0, 0>>, <<Width, Height>>, "glyph"),
    Raster(<<0, 0>>, <<Width, Height>>, "edge"),
    Raster(<<5, 7>>, <<Width, Height>>, "glyph") }

\* rasters of any other size: one dimension off, landscape, empty, doubled
OtherRasters ==
  { Raster(<<0, 0>>, <<Width - 1, Height>>, "checker"),
    Raster(<<0, 0>>, <<Width, Height - 1>>, "checker"),
    Raster(<<0, 0>>, <<Width + 1, Height>>, "white"),
    Raster(<<0, 0>>, <<Width, Height + 1>>, "white"),
    Raster(<<0, 0>>, <<Height, Width>>, "glyph"),
    Raster(<<0, 0>>, <<0, 0>>, "white"),
    Raster(<<0, 0>>, <<2 * Width, 2 * Height>>, "checker") }

Uniforms ==
  { Uniform(c) : c \in {ColorWhite, RGBA8(0, 0, 0, 255), RGBA8(200, 30, 30, 255),
                        RGBA8(0, 0, 0, 0)} }

Images == PanelRasters \cup OtherRasters \cup Uniforms

\* x (a byte) and y (a uint16) arguments of window and cursor
Xs == {0, 7, 127, 255}
Ys == {0, 295, 4660, 65535}

\* channel values for isdark (RGBA() yields 0..65535 per channel): the ends
\* of the range and the values next to the threshold, for equal channels
\* (130 | 131) and for red (237 | 238), green (169 | 170) and blue (385 | 386)
\* alone
Channels == {0, 129, 130, 131, 169, 170, 237, 238, 385, 386, 65535}
Alphas == {0, 65535}

(***************************************************************************)
(* Specifications.                                                         *)
(*   Spec      any sequence of Mode / Draw / Clear / Sleep calls, one at a *)
(*             time, on a fresh driver                                     *)
(*   SpecDraw  Draw and Clear over the whole input set                     *)
(*   SpecMode  Mode calls, with the primitives of each call recorded       *)
(*   SpecUnits Sleep, window and cursor calls, Sleep and window recorded   *)
(* and, each introduced below with its own heading, SpecDark, SpecIdle,    *)
(* SpecCursor, SpecRemode and SpecRace.                                    *)
(***************************************************************************)
Init == New({})

Next ==
  \/ \E m \in Modes : CallMode(m)
  \/ \E im \in {Raster(<<0, 0>>, <<Width, Height>>, "glyph"),
                Raster(<<0, 0>>, <<Height, Width>>, "glyph")} : CallDraw(im)
  \/ \E c \in {ColorWhite, RGBA8(0, 0, 0, 255)} : CallClear(c)
  \/ CallSleep
  \/ ClearEntry
  \/ DrawEntry
  \/ Exec

Spec == Init /\ [][Next]_vars

NextDraw ==
  \/ \E im \in Images : CallDraw(im)
  \/ \E c \in Colors : CallClear(c)
  \/ ClearEntry
  \/ DrawEntry
  \/ PinWrite
  \/ Transmit
  \/ BusyRead
  \/ Nap
  \/ Return

SpecDraw == Init /\ [][NextDraw]_vars

InitMode == New({"Mode"})

NextMode ==
  \/ \E m \in Modes : CallMode(m)
  \/ PinWrite
  \/ Transmit
  \/ Wait
  \/ Return

SpecMode == InitMode /\ [][NextMode]_vars

InitUnits == New({"Sleep", "window"})

NextUnits ==
  \/ CallSleep
  \/ \E x0 \in Xs, x1 \in Xs, y0 \in Ys, y1 \in Ys : CallWindow(x0, x1, y0, y1)
  \/ \E x \in Xs, y \in Ys : CallCursor(x, y)
  \/ PinWrite
  \/ Transmit
  \/ BusyRead
  \/ Nap
  \/ Return

SpecUnits == InitUnits /\ [][NextUnits]_vars

(***************************************************************************)
(* SpecIdle: Clear (which runs Draw on a uniform image) and a Draw that is *)
(* rejected, under fairness.  The goroutine that runs the                  *)
(* call keeps running (weak fairness of its steps), and the controller     *)
(* releases the busy line in the end: a wait that keeps polling gets a     *)
(* read other than 1 (strong fairness of such a read, which is disabled    *)
(* while idle() is in its time.Sleep).                                     *)
(***************************************************************************)
Step == ClearEntry \/ DrawEntry \/ PinWrite \/ Transmit \/ BusyRead \/ Nap \/ Return

ReadyRead == BusyRead /\ lastRead' = "ready"

NextIdle ==
  \/ CallDraw(Raster(<<0, 0>>, <<Height, Width>>, "glyph"))
  \/ CallClear(ColorWhite)
  \/ ClearEntry
  \/ DrawEntry
  \/ PinWrite
  \/ Transmit
  \/ BusyRead
  \/ Nap
  \/ Return

SpecIdle == Init /\ [][NextIdle]_vars /\ WF_vars(Step) /\ SF_vars(ReadyRead)

(***************************************************************************)
(* SpecDark: isdark applied to every combination of the channel values.    *)
(***************************************************************************)
NextDark ==
  \/ \E r \in Channels, g \in Channels, b \in Channels, a \in Alphas :
       CallIsdark(<<r, g, b, a>>)
  \/ IsdarkBody
  \/ Return

SpecDark == Init /\ [][NextDark]_vars

(***************************************************************************)
(* SpecCursor: cursor called on its own, and Draw, which calls it per row. *)
(***************************************************************************)
NextCursor ==
  \/ \E x \in Xs, y \in Ys : CallCursor(x, y)
  \/ CallDraw(Raster(<<0, 0>>, <<Width, Height>>, "glyph"))
  \/ DrawEntry
  \/ PinWrite
  \/ Transmit
  \/ BusyRead
  \/ Nap
  \/ Return

SpecCursor == Init /\ [][NextCursor]_vars

(***************************************************************************)
(* SpecRemode: any sequence of Mode / Draw / Clear / Sleep calls, with the *)
(* primitives of every Mode call recorded.                                 *)
(***************************************************************************)
NextRemode ==
  \/ \E m \in Modes : CallMode(m)
  \/ \E im \in {Raster(<<0, 0>>, <<Width, Height>>, "glyph"),
                Raster(<<0, 0>>, <<Height, Width>>, "glyph")} : CallDraw(im)
  \/ CallClear(ColorWhite)
  \/ CallSleep
  \/ ClearEntry
  \/ DrawEntry
  \/ Exec

SpecRemode == InitMode /\ [][NextRemode]_vars

(***************************************************************************)
(* SpecRace: Sleep calls by one goroutine, one Sleep call by a second one, *)
(* at any moment.                                                          *)
(***************************************************************************)
NextRace ==
  \/ CallSleep
  \/ PinWrite
  \/ Transmit
  \/ Return
  \/ GoSleep
  \/ OtherPinWrite
  \/ OtherTransmit
  \/ OtherReturn

SpecRace == Init /\ [][NextRace]_vars

(***************************************************************************)
(* Reading the observations.                                               *)
(***************************************************************************)
\* how often the call in flight (or the last one) sent command byte c
Count(c) == IF c \in DOMAIN cmdCount THEN cmdCount[c] ELSE 0

\* the calls that run Draw's body
Drawing == task.op \in {"Draw", "Clear"}

\* a y coordinate from its two bytes, low byte first
LittleEndian(lo, hi) == lo + 256 * hi

\* whether bit m (a one-bit mask) of byte b is set
BitSet(b, m) == (b \div m) % 2 = 1

\* the level of dc when primitive k of trace t is performed: the level of the
\* last dc write before it ("UNSET" if the trace holds none)
RECURSIVE DcAt(_, _)
DcAt(t, k) ==
  IF k = 0 THEN "UNSET"
  ELSE IF t[k].k = "pin" /\ t[k].a = "dc" THEN t[k].lv
  ELSE DcAt(t, k - 1)

\* The bytes of a recorded trace as the controller takes them: each transmitted
\* byte with whether dc was LOW (a command) when it went out.
Wire(t) ==
  LET tx == SelectSeq([k \in 1..Len(t) |-> k], LAMBDA k : t[k].k = "tx")
  IN [m \in 1..Len(tx) |-> [cmd |-> DcAt(t, tx[m]) = "LOW", b |-> t[tx[m]].v]]

C(b) == [cmd |-> TRUE, b |-> <<b>>]
D(b) == [cmd |-> FALSE, b |-> <<b>>]

\* the number of bytes transmitted at or after position k of a trace
TxFrom(t, k) == Cardinality({m \in k..Len(t) : t[m].k = "tx"})

\* an image that is neither uniform nor of the panel's size
WrongSize(im) == ~uniform(im) /\ BoundsSize(im) # <<Width, Height>>

(***************************************************************************)
(* C1.  A Draw of an image that is not uniform and whose bounds size is    *)
(* not (Width, Height) returns ErrInvalidImageSize, and from its entry to  *)
(* its return transmits no byte, writes no pin and never reads busy.       *)
(***************************************************************************)
C1_RejectedDrawDoesNoIO ==
  /\ (task.op = "Draw" /\ WrongSize(task.arg)) =>
       /\ nTx = 0 /\ nPin = 0 /\ ~busyRead
       /\ pc \in {"Draw", "ret"}
       /\ todo = <<>>
       /\ pc = "ret" => err = ErrInvalidImageSize
  /\ (ret.op = "Draw" /\ WrongSize(ret.arg)) =>
       /\ ret.err = ErrInvalidImageSize
       /\ nTx = 0 /\ nPin = 0 /\ ~busyRead

\* a landscape image (296 x 128) has been rejected
C1_Witness ==
  /\ ret.op = "Draw"
  /\ ret.arg.size = <<Height, Width>>
  /\ ret.err = ErrInvalidImageSize

(***************************************************************************)
(* C2.  A Draw of an image of exactly the panel's size sends Height groups *)
(* "cursor-set, WRITE_RAM": every WRITE_RAM (0x24) directly follows a      *)
(* cursor group 0x4E <0>, 0x4F <row low, row high> whose row is the number *)
(* of WRITE_RAM commands sent before it (rows 0, 1, ... ascending), and    *)
(* carries exactly Width/8 data bytes when the next command byte goes out; *)
(* at the return Height such groups have been sent.                        *)
(***************************************************************************)
C2_RowGroups ==
  /\ (task.op = "Draw" /\ isvertical(task.arg)) =>
       /\ closed.cmd = 36 => closed.n = Width \div 8
       /\ lastCmd = 36 =>
            /\ Len(args) <= Width \div 8
            /\ closed = [cmd |-> 79, n |-> 2]
            /\ Count(36) = Count(79)
       /\ lastCmd = 79 =>
            /\ Len(args) <= 2
            /\ closed = [cmd |-> 78, n |-> 1]
            /\ Len(args) = 2 => LittleEndian(args[1], args[2]) = Count(36)
       /\ lastCmd = 78 =>
            /\ Len(args) <= 1
            /\ Len(args) = 1 => args[1] = 0
            /\ Count(78) = Count(36) + 1
       /\ Count(36) <= Height
       /\ pc = "ret" => err = nil /\ Count(36) = Height
  /\ (ret.op = "Draw" /\ isvertical(ret.arg)) =>
       /\ ret.err = nil
       /\ Count(78) = Height /\ Count(79) = Height /\ Count(36) = Height

\* the offset panel-sized raster has been drawn to the last row
C2_Witness ==
  /\ ret.op = "Draw"
  /\ isvertical(ret.arg)
  /\ ret.arg.min = <<5, 7>>
  /\ Count(36) = Height

(***************************************************************************)
(* C3.  Every data byte Draw sends after WRITE_RAM is the MSB-first pack   *)
(* of 8 pixels, 1 = white, 0 = black: for the byte of row r (the r+1-th    *)
(* WRITE_RAM) and pixel column c (8 times the number of data bytes before  *)
(* it in the row), bit 0x80 >> px is clear exactly when the pixel the      *)
(* image returns at (c + px, r) is dark.                                   *)
(***************************************************************************)
C3_PixelBits ==
  (Drawing /\ lastCmd = 36 /\ args # <<>>) =>
    LET r == Count(36) - 1
        c == 8 * (Len(args) - 1)
        b == args[Len(args)]
    IN \A px \in 0..7 : ~BitSet(b, mask80(px)) <=> isdark(RGBA(At(img, c + px, r)))

\* a byte with white and black pixels has been sent for the offset raster
C3_Witness ==
  /\ task.op = "Draw"
  /\ img = Raster(<<5, 7>>, <<Width, Height>>, "glyph")
  /\ lastCmd = 36
  /\ Count(36) = 9
  /\ Len(args) = 2
  /\ args[2] \notin {0, 255}

(***************************************************************************)
(* C4.  A Draw of a uniform image, whatever its colour, never takes the    *)
(* size error and returns nil after the whole frame: the window setup      *)
(* (0x44, 0x45) once, Height row groups of Width/8 data bytes, and the     *)
(* activation sequence 0x22, 0x20, 0xFF with its idle wait.                *)
(***************************************************************************)
C4_UniformDrawsFullFrame ==
  /\ (task.op = "Draw" /\ uniform(task.arg)) =>
       /\ err = nil
       /\ closed.cmd = 36 => closed.n = Width \div 8
       /\ pc = "ret" => Count(36) = Height /\ lastCmd = 255
  /\ (ret.op = "Draw" /\ uniform(ret.arg)) =>
       /\ ret.err = nil
       /\ Count(68) = 1 /\ Count(69) = 1
       /\ Count(78) = Height /\ Count(79) = Height /\ Count(36) = Height
       /\ Count(34) = 1 /\ Count(32) = 1 /\ Count(255) = 1
       /\ nTx = 8 + Height * (6 + Width \div 8) + 4
       /\ lastCmd = 255 /\ args = <<>> /\ closed = [cmd |-> 32, n |-> 0]
       /\ busyRead

\* a uniform image of the zero (transparent) colour has been drawn
C4_Witness ==
  /\ ret.op = "Draw"
  /\ ret.arg = Uniform(RGBA8(0, 0, 0, 0))
  /\ ret.err = nil
  /\ Count(36) = Height

\* a colour that is opaque white, in whatever colour type
IsWhite(c) == RGBA(c) = <<65535, 65535, 65535, 65535>>

(***************************************************************************)
(* C5.  Clear(c) paints the panel white (every RAM data byte 0xFF) when c  *)
(* is white in whatever colour type, black (0x00) otherwise; it reports no *)
(* failure and the Draw it calls does not take the size error.             *)
(***************************************************************************)
C5_ClearPaintsRequestedColour ==
  /\ (task.op = "Clear" /\ lastCmd = 36 /\ args # <<>>) =>
       args[Len(args)] = IF IsWhite(task.arg) THEN 255 ELSE 0
  /\ ret.op = "Clear" => ret.err = void /\ ret.draw = nil

\* a Mode call of each mode has completed and been recorded
BothModesRecorded == saved[FullUpdate] # <<>> /\ saved[PartialUpdate] # <<>>

(***************************************************************************)
(* C6.  The recorded primitives of a completed Mode(FullUpdate) and of a   *)
(* completed Mode(PartialUpdate) have the same length and the same number  *)
(* of bytes, and wherever they differ the position holds, in both, one of  *)
(* the last 30 transmitted bytes, sent by data(); the byte before those 30 *)
(* is the command 0x32 in both.                                            *)
(***************************************************************************)
C6_ModesDifferOnlyInLut ==
  BothModesRecorded =>
    LET f == saved[FullUpdate]
        p == saved[PartialUpdate]
    IN /\ Len(f) = Len(p)
       /\ TxFrom(f, 1) = TxFrom(p, 1)
       /\ \A k \in 1..Len(f) :
            f[k] # p[k] =>
              /\ f[k].k = "tx" /\ f[k].a = "data" /\ TxFrom(f, k) <= 30
              /\ p[k].k = "tx" /\ p[k].a = "data" /\ TxFrom(p, k) <= 30
       /\ TxFrom(f, 1) > 30
       /\ LET wf == Wire(f)
              wp == Wire(p)
          IN wf[Len(wf) - 30] = C(50) /\ wp[Len(wp) - 30] = C(50)

\* both modes have been configured and their traces do differ
C6_Witness ==
  /\ BothModesRecorded
  /\ ret.op = "Mode"
  /\ \E k \in 1..Len(saved[FullUpdate]) : saved[FullUpdate][k] # saved[PartialUpdate][k]

\* the levels written to rst in a trace, in order
RstWrites(t) ==
  LET w == SelectSeq(t, LAMBDA e : e.k = "pin" /\ e.a = "rst")
  IN [m \in 1..Len(w) |-> w[m].lv]

(***************************************************************************)
(* C7.  Mode drives rst HIGH, LOW, HIGH before it transmits any byte and   *)
(* never again; the bytes it sends are, in order, command 0x01 with data   *)
(* 0x27 0x01 0x00, command 0x0C with 3 data bytes, 0x2C with 1, 0x3A with  *)
(* 1, 0x3B with 1, 0x11 with data 0x03, and 0x32 with 30 data bytes.       *)
(***************************************************************************)
C7_ModeOrder ==
  /\ (task.op = "Mode" /\ nTx > 0) =>
       /\ RstWrites(trace) = <<"HIGH", "LOW", "HIGH">>
       /\ pins.rst = "HIGH"
  /\ ret.op = "Mode" =>
       LET w == Wire(trace) IN
       /\ RstWrites(trace) = <<"HIGH", "LOW", "HIGH">>
       /\ pins.rst = "HIGH"
       /\ Len(w) = 47
       /\ {k \in 1..Len(w) : w[k].cmd} = {1, 5, 9, 11, 13, 15, 17}
       /\ SubSeq(w, 1, 4) = <<C(1), D(39), D(1), D(0)>>
       /\ w[5] = C(12)
       /\ w[9] = C(44)
       /\ w[11] = C(58)
       /\ w[13] = C(59)
       /\ SubSeq(w, 15, 17) = <<C(17), D(3), C(50)>>

\* Mode(PartialUpdate) has returned
C7_Witness ==
  /\ ret.op = "Mode"
  /\ ret.arg = PartialUpdate
  /\ nTx = 47

(***************************************************************************)
(* C8.  Sleep sends exactly two bytes, command 0x10 then data 0x01, and at *)
(* no point from its entry to its return reads the busy pin.               *)
(***************************************************************************)
C8_SleepTwoBytesNoPoll ==
  /\ task.op = "Sleep" => ~busyRead /\ nTx <= 2
  /\ ret.op = "Sleep" =>
       /\ nTx = 2
       /\ Wire(trace) = <<C(16), D(1)>>
       /\ ~busyRead
       /\ \A k \in 1..Len(trace) : trace[k].k # "read"

\* Sleep has returned after its two bytes
C8_Witness ==
  /\ ret.op = "Sleep"
  /\ lastTx.v = <<1>>
  /\ nTx = 2

(***************************************************************************)
(* C9.  window(x0, x1, y0, y1) sends command 0x44 with the 2 data bytes    *)
(* x0>>3, x1>>3, then command 0x45 with the 4 data bytes low(y0),          *)
(* high(y0), low(y1), high(y1), nothing else, and never reads busy.        *)
(***************************************************************************)
C9_WindowBytes ==
  /\ task.op = "window" => ~busyRead
  /\ ret.op = "window" =>
       LET x0 == ret.arg[1]
           x1 == ret.arg[2]
           y0 == ret.arg[3]
           y1 == ret.arg[4]
       IN /\ Wire(trace) = << C(68), D(x0 \div 8), D(x1 \div 8),
                              C(69), D(y0 % 256), D(y0 \div 256),
                                     D(y1 % 256), D(y1 \div 256) >>
          /\ nTx = 8
          /\ ~busyRead

\* window(7, 255, 0x1234, 295) has returned
C9_Witness ==
  /\ ret.op = "window"
  /\ ret.arg = <<7, 255, 4660, 295>>
  /\ nTx = 8

\* every transmit call so far carried one byte, under chip-select LOW and
\* the dc level of its issuer
ByteFraming ==
  lastTx # NoTx =>
    /\ Len(lastTx.v) = 1
    /\ lastTx.cs = "LOW"
    /\ lastTx.by = "command" => lastTx.dc = "LOW"
    /\ lastTx.by = "data" => lastTx.dc = "HIGH"

\* while chip-select is LOW the driver is inside command() or data(), and its
\* next pin write raises chip-select
CsReleasedAfterByte ==
  pins.cs = "LOW" =>
    /\ todo # <<>>
    /\ \/ Head(todo) = pinHigh("cs")
       \/ /\ Head(todo).k = "tx"
          /\ Len(todo) >= 2
          /\ todo[2] = pinHigh("cs")

(***************************************************************************)
(* C10 as stated.  Every transmit call carries one byte and goes out with  *)
(* chip-select LOW, with dc LOW for a command and HIGH for a data byte;    *)
(* chip-select is raised again after each byte; and chip-select is HIGH    *)
(* whenever a public operation has returned.                               *)
(***************************************************************************)
C10_CsHighAtEveryReturn ==
  /\ ByteFraming
  /\ CsReleasedAfterByte
  /\ ret.op # "none" => pins.cs = "HIGH"

(***************************************************************************)
(* C10, amended.  The same framing of every byte; chip-select is HIGH      *)
(* whenever a public operation has returned and the driver has transmitted *)
(* a byte, in that call or an earlier one; a call that returns without     *)
(* having transmitted is a rejected Draw and has written no pin.           *)
(***************************************************************************)
C10_Framing ==
  /\ ByteFraming
  /\ CsReleasedAfterByte
  /\ (ret.op # "none" /\ lastTx # NoTx) => pins.cs = "HIGH"
  /\ (ret.op # "none" /\ nTx = 0) => nPin = 0 /\ ret.err = ErrInvalidImageSize

\* a Draw has returned nil, its last byte a command, chip-select HIGH
C10_Witness ==
  /\ ret.op = "Draw"
  /\ ret.err = nil
  /\ lastTx.by = "command"
  /\ lastTx.cs = "LOW"
  /\ pins.cs = "HIGH"

\* a Draw that passed the size test
DrawAccepted == task.op = "Draw" /\ ~DrawRejects(task.arg)

(***************************************************************************)
(* C11.  In a Draw that passes the size test the activation sequence is    *)
(* sent once, and only after the last data byte of the last row: command   *)
(* 0x22 follows the Height-th WRITE_RAM closed with Width/8 data bytes and *)
(* carries the one data byte 0xC4, command 0x20 follows it with no data,   *)
(* command 0xFF follows 0x20 with no data; and Draw reaches its return,    *)
(* with nil, only when its last busy read said not-busy and no byte has    *)
(* been transmitted since, the last command sent being 0xFF.               *)
(***************************************************************************)
C11_ActivationOnceAtEnd ==
  /\ DrawAccepted =>
       /\ Count(34) <= 1 /\ Count(32) <= 1 /\ Count(255) <= 1
       /\ Count(34) = 1 => Count(36) = Height
       /\ lastCmd = 34 =>
            /\ closed = [cmd |-> 36, n |-> Width \div 8]
            /\ args \in {<<>>, <<196>>}
       /\ lastCmd = 32 => closed = [cmd |-> 34, n |-> 1] /\ args = <<>>
       /\ lastCmd = 255 => closed = [cmd |-> 32, n |-> 0] /\ args = <<>>
       /\ Count(32) = 1 => Count(34) = 1
       /\ Count(255) = 1 => Count(32) = 1
       /\ pc = "show" => Count(36) = Height
       /\ pc = "ret" =>
            /\ err = nil
            /\ Count(255) = 1
            /\ lastCmd = 255
            /\ lastRead = "ready"
            /\ sinceRead = 0
  /\ (ret.op = "Draw" /\ ret.err = nil) =>
       /\ Count(34) = 1 /\ Count(32) = 1 /\ Count(255) = 1
       /\ lastCmd = 255 /\ args = <<>>
       /\ lastRead = "ready"
       /\ sinceRead = 0

\* a Draw of a panel-sized raster has returned nil after the activation
C11_Witness ==
  /\ ret.op = "Draw"
  /\ ret.arg = Raster(<<0, 0>>, <<Width, Height>>, "checker")
  /\ ret.err = nil
  /\ lastCmd = 255
  /\ lastRead = "ready"

\* a Draw or Clear in flight whose image passes (or will pass) the size test
ValidInFlight == task.op = "Clear" \/ DrawAccepted

\* a Draw or Clear in flight, or a Draw that has returned an error
Called == task.op \in {"Draw", "Clear"}

\* the call is inside idle(): its next primitive is the busy poll
InIdle == Running /\ Prim.k = "idle"

(***************************************************************************)
(* C12.  idle() has no timeout.  After a read of 1 the call is still in    *)
(* idle() and polls again; after a read of another value it has left       *)
(* idle().  A Draw or Clear of a valid image whose last busy read did not  *)
(* say not-busy has not returned and carries no error, and before its      *)
(* first read it has sent no WRITE_RAM: so it never returns while the busy *)
(* line stays at 1.  When every wait gets a read other than 1 in the end,  *)
(* the call returns, with nil.                                             *)
(***************************************************************************)
C12_IdleWaitsForReady ==
  /\ [](/\ napping => lastRead = "busy"
        /\ (task.op # "none" /\ lastRead = "busy") => InIdle /\ pc # "ret"
        /\ (task.op # "none" /\ lastRead = "ready" /\ sinceRead = 0) => ~InIdle
        /\ (ValidInFlight /\ lastRead # "ready") =>
             /\ pc # "ret"
             /\ err = nil
             /\ ret = NoRet
        /\ (ValidInFlight /\ lastRead = "none") => Count(36) = 0)
  /\ ValidInFlight ~> (ret.op \in {"Draw", "Clear"} /\ ret.draw = nil)
  /\ Called ~> ret.op \in {"Draw", "Clear"}

\* Clear is polling again, after a read of 1, in the wait that follows 0xFF
C12_Witness ==
  /\ task.op = "Clear"
  /\ lastCmd = 255
  /\ lastRead = "busy"
  /\ ~napping
  /\ InIdle

\* the command bytes of the controller's register protocol
Opcodes == {1, 12, 17, 32, 34, 36, 44, 50, 58, 59, 68, 69, 78, 79, 16, 255}

(***************************************************************************)
(* C13.  Over any sequence of Mode, Draw, Clear and Sleep calls every byte *)
(* that goes out with dc LOW, and so every byte the controller takes as a  *)
(* command, is one of the 16 opcodes; and the first byte a call transmits  *)
(* is issued by command() and goes out with dc LOW.                        *)
(***************************************************************************)
C13_OpcodesOnly ==
  /\ (lastTx # NoTx /\ lastTx.dc = "LOW") =>
       /\ Len(lastTx.v) = 1
       /\ lastTx.v[1] \in Opcodes
       /\ lastTx.by = "command"
  /\ lastCmd # NoCmd => lastCmd \in Opcodes
  /\ closed.cmd # NoCmd => closed.cmd \in Opcodes
  /\ DOMAIN cmdCount \subseteq Opcodes
  /\ nTx = 1 =>
       /\ lastTx.by = "command"
       /\ lastTx.dc = "LOW"
       /\ lastCmd = lastTx.v[1]
       /\ args = <<>>
       /\ task.op = "Mode" => lastCmd = 1
       /\ task.op = "Sleep" => lastCmd = 16
       /\ Drawing => lastCmd = 68

\* Clear has transmitted its first byte, the command 0x44, right after a Sleep
C13_Witness ==
  /\ task.op = "Clear"
  /\ nTx = 1
  /\ lastTx = [by |-> "command", v |-> <<68>>, dc |-> "LOW", cs |-> "LOW"]
  /\ closed.cmd = 16

\* 299 r^2 + 587 g^2 + 114 b^2 <= 16900000, computed without leaving 32 bits:
\* a channel above 400 makes the sum exceed the bound on its own
\* (114 * 401^2 = 18331314)
WeightedSquaresWithin(r, g, b) ==
  /\ r <= 400 /\ g <= 400 /\ b <= 400
  /\ 299 * r * r + 587 * g * g + 114 * b * b <= 16900000

\* an isdark call has computed its result
IsdarkDone == task.op = "isdark" /\ pc = "ret"

(***************************************************************************)
(* C14.  isdark(r, g, b, a) is true exactly when 299 r^2 + 587 g^2 +       *)
(* 114 b^2 <= 16900000, whatever a is: true for (0, 0, 0), false for       *)
(* (65535, 65535, 65535), true for equal channels of 129 and 130 (where    *)
(* the weighted root is the channel value), false for 131, and it changes  *)
(* between 237 and 238 of red, 169 and 170 of green, 385 and 386 of blue   *)
(* alone.                                                                  *)
(***************************************************************************)
C14_DarkIffWithinThreshold ==
  IsdarkDone =>
    LET r == task.arg[1]
        g == task.arg[2]
        b == task.arg[3]
    IN /\ err \in BOOLEAN
       /\ err <=> WeightedSquaresWithin(r, g, b)
       /\ (r = 0 /\ g = 0 /\ b = 0) => err
       /\ (r = 65535 /\ g = 65535 /\ b = 65535) => ~err
       /\ (r = g /\ g = b) => (err <=> r <= 130)
       /\ (g = 0 /\ b = 0) => (err <=> r <= 237)
       /\ (r = 0 /\ b = 0) => (err <=> g <= 169)
       /\ (r = 0 /\ g = 0) => (err <=> b <= 385)

\* isdark has said dark at the threshold itself, with alpha 0
C14_Witness ==
  /\ IsdarkDone
  /\ task.arg = <<130, 130, 130, 0>>
  /\ err = TRUE

(***************************************************************************)
(* C15.  cursor(x, y) sends command 0x4E with the data byte x>>3, command  *)
(* 0x4F with the data bytes low(y), high(y), reads busy only after these 5 *)
(* bytes, and returns only when its last read said not-busy and nothing    *)
(* was sent since.  In Draw every WRITE_RAM (0x24) is the first byte sent  *)
(* after a busy read that said not-busy and follows the cursor group       *)
(* directly, every RAM data byte of the row goes out with that read still  *)
(* the last one, and no call transmits a byte after a read that said busy. *)
(***************************************************************************)
C15_CursorThenReady ==
  /\ lastRead = "busy" => sinceRead = 0
  /\ task.op = "cursor" =>
       LET x == task.arg[1]
           y == task.arg[2]
       IN /\ nTx <= 5
          /\ nTx >= 1 => Count(78) = 1
          /\ nTx = 1 => lastCmd = 78 /\ args = <<>>
          /\ nTx = 2 => lastCmd = 78 /\ args = <<x \div 8>>
          /\ nTx >= 3 => lastCmd = 79 /\ closed = [cmd |-> 78, n |-> 1] /\ Count(79) = 1
          /\ nTx = 3 => args = <<>>
          /\ nTx = 4 => args = <<y % 256>>
          /\ nTx = 5 => args = <<y % 256, y \div 256>>
          /\ busyRead => nTx = 5
          /\ pc = "ret" => nTx = 5 /\ lastRead = "ready" /\ sinceRead = 0
  /\ ret.op = "cursor" =>
       /\ nTx = 5
       /\ lastCmd = 79
       /\ args = <<ret.arg[2] % 256, ret.arg[2] \div 256>>
       /\ lastRead = "ready"
       /\ sinceRead = 0
  /\ (DrawAccepted /\ lastCmd = 36) =>
       /\ lastRead = "ready"
       /\ sinceRead = 1 + Len(args)
       /\ closed = [cmd |-> 79, n |-> 2]

\* Draw has just sent the WRITE_RAM of its third row, the first byte since the
\* read that ended the cursor wait
C15_Witness ==
  /\ task.op = "Draw"
  /\ lastCmd = 36
  /\ args = <<>>
  /\ Count(36) = 3
  /\ lastRead = "ready"
  /\ sinceRead = 1

\* the controller's view after each of the first 8 bytes of a frame
WindowPrefix ==
  << [cmd |-> 68, args |-> <<>>],
     [cmd |-> 68, args |-> <<0>>],
     [cmd |-> 68, args |-> <<0, 15>>],
     [cmd |-> 69, args |-> <<>>],
     [cmd |-> 69, args |-> <<0>>],
     [cmd |-> 69, args |-> <<0, 0>>],
     [cmd |-> 69, args |-> <<0, 0, 39>>],
     [cmd |-> 69, args |-> <<0, 0, 39, 1>>] >>

(***************************************************************************)
(* C16.  The first 8 bytes of a Draw that passes the size test are command *)
(* 0x44 with data 0x00, 0x0F and command 0x45 with data 0x00, 0x00, 0x27,  *)
(* 0x01; 0x44 and 0x45 are sent once per call, and the first cursor        *)
(* command (0x4E) is the 9th byte, after 0x45 took its 4 data bytes.  The  *)
(* bytes decode to the last column 127 = Width-1 and the last row 295 =    *)
(* Height-1, which the conversions to byte and uint16 leave as they are.   *)
(***************************************************************************)
C16_WindowFirstAndOnce ==
  /\ byte(Width - 1) = Width - 1
  /\ uint16(Height - 1) = Height - 1
  /\ DrawAccepted =>
       /\ Count(68) <= 1 /\ Count(69) <= 1
       /\ nTx >= 1 => Count(68) = 1
       /\ nTx >= 4 => Count(69) = 1
       /\ nTx \in 1..8 =>
            /\ lastCmd = WindowPrefix[nTx].cmd
            /\ args = WindowPrefix[nTx].args
            /\ Count(78) = 0
       /\ nTx \in 4..8 => closed = [cmd |-> 68, n |-> 2]
       /\ nTx = 3 => 8 * args[2] + 7 = Width - 1
       /\ nTx = 8 => LittleEndian(args[3], args[4]) = Height - 1
       /\ nTx = 9 => lastCmd = 78 /\ closed = [cmd |-> 69, n |-> 4] /\ Count(78) = 1
       /\ pc = "window" => nTx <= 8
  /\ (ret.op = "Draw" /\ ret.err = nil) => Count(68) = 1 /\ Count(69) = 1

\* Draw of a uniform image has sent the 8th byte of its window setup
C16_Witness ==
  /\ task.op = "Draw"
  /\ uniform(task.arg)
  /\ nTx = 8
  /\ lastCmd = 69
  /\ args = <<0, 0, 39, 1>>

\* sequence s is the beginning of sequence t
IsPrefix(s, t) == Len(s) <= Len(t) /\ s = SubSeq(t, 1, Len(s))

(***************************************************************************)
(* C17.  Whatever calls came before it (none, a Mode of the same or the    *)
(* other mode, Draw, Clear, Sleep), a Mode(m) call performs the primitives *)
(* of reset() and the configuration in the one fixed order: what it has    *)
(* performed is at every point the beginning of that sequence, at its      *)
(* return it is the whole of it, and it equals the recorded trace of the   *)
(* Mode(m) call completed before it, if there is one.  It leaves rst, dc   *)
(* and cs HIGH, and the two bytes of its trace that come from the panel    *)
(* geometry are Height-1 each time.                                        *)
(***************************************************************************)
C17_ModeTraceIndependentOfHistory ==
  /\ task.op = "Mode" =>
       /\ IsPrefix(trace, Mode(task.arg))
       /\ pc = "ret" =>
            /\ trace = Mode(task.arg)
            /\ saved[task.arg] # <<>> => trace = saved[task.arg]
            /\ pins = [rst |-> "HIGH", dc |-> "HIGH", cs |-> "HIGH"]
  /\ ret.op = "Mode" =>
       /\ saved[ret.arg] = Mode(ret.arg)
       /\ RstWrites(saved[ret.arg]) = <<"HIGH", "LOW", "HIGH">>
       /\ LET w == Wire(saved[ret.arg])
          IN Len(w) = 47 /\ LittleEndian(w[2].b[1], w[3].b[1]) = Height - 1

\* Mode(PartialUpdate) is called again, after both modes were configured and
\* the panel was put to sleep (the command before its first byte is the 0x10
\* of Sleep), and has done its reset and sent its first byte
C17_Witness ==
  /\ task.op = "Mode"
  /\ task.arg = PartialUpdate
  /\ saved[PartialUpdate] # <<>>
  /\ saved[FullUpdate] # <<>>
  /\ nTx = 1
  /\ closed.cmd = 16
  /\ RstWrites(trace) = <<"HIGH", "LOW", "HIGH">>

\* A Mode call has completed on this driver.  Only reset(), which Mode calls
\* first, drives rst; calls come one at a time, so while another call is in
\* flight a driven rst means that a Mode call has run to its end.
ModeCompleted == pins.rst # "UNSET" /\ task.op # "Mode"

(***************************************************************************)
(* C18.  No Draw or Clear has transmitted a byte unless a Mode call has    *)
(* completed on the driver before.                                         *)
(***************************************************************************)
C18_NoFrameBeforeMode ==
  (Drawing /\ nTx > 0) => ModeCompleted

\* a step that drives the reset pin
DrivesRst == PinWrite /\ Prim.a = "rst"

\* the primitives the call in flight is still to perform hold no write of rst
NoRstAhead == \A k \in DOMAIN todo : ~(todo[k].k = "pin" /\ todo[k].a = "rst")

(***************************************************************************)
(* C19.  Only Mode drives the reset pin: every step that writes rst, and   *)
(* every step that changes its level, is a step of a Mode call; a Draw,    *)
(* Clear or Sleep in flight, after a Sleep as at any other time, has no    *)
(* write of rst among the primitives it is about to perform.               *)
(***************************************************************************)
C19_ResetOnlyByMode ==
  /\ [](task.op \in {"Draw", "Clear", "Sleep"} => NoRstAhead)
  /\ [][/\ DrivesRst => task.op = "Mode"
        /\ pins'.rst # pins.rst => task.op = "Mode"]_vars

\* a Draw that follows a Sleep has sent its first byte, the reset line as the
\* last Mode left it
C19_Witness ==
  /\ task.op = "Draw"
  /\ nTx = 1
  /\ lastCmd = 68
  /\ closed = [cmd |-> 16, n |-> 1]
  /\ nPin = 2
  /\ pins.rst = "HIGH"

\* the last byte went out under a dc level that is not its issuer's: a
\* command byte with dc not LOW or a data byte with dc not HIGH
Misframed ==
  /\ lastTx # NoTx
  /\ \/ lastTx.by = "command" /\ lastTx.dc # "LOW"
     \/ lastTx.by = "data" /\ lastTx.dc # "HIGH"

\* the bytes a Mode or a Sleep call transmits
BytesOf(op) == IF op = "Mode" THEN 47 ELSE 2

\* a byte of the second goroutine's call went out between two bytes of a call
\* of the first
Interleaved ==
  /\ crossed.op # "none"
  /\ 0 < crossed.n
  /\ crossed.n < BytesOf(crossed.op)

(***************************************************************************)
(* C20.  A byte sent under the dc level of another call, and bytes of two  *)
(* calls that interleave on the bus, occur only when two calls have been   *)
(* in flight at the same time; with calls made one at a time every byte    *)
(* goes out under the dc level and the chip-select LOW of its own          *)
(* command() or data().  (That two calls in flight do reach such a state   *)
(* is the state C20_Witness.)                                              *)
(***************************************************************************)
C20_MisframingOnlyWhenConcurrent ==
  /\ Misframed => overlap
  /\ Interleaved => overlap
  /\ (lastTx # NoTx /\ lastTx.cs # "LOW") => overlap
  /\ ~overlap => (lastCmd # NoCmd => lastCmd \in Opcodes)

\* with a Sleep of the second goroutine in flight, the first goroutine's
\* Sleep has sent its command byte while dc was HIGH, and a byte of the one
\* Sleep went out between the two bytes of the other
C20_Witness ==
  /\ overlap
  /\ task.op = "Sleep"
  /\ lastTx.by = "command"
  /\ lastTx.dc = "HIGH"
  /\ Interleaved

====
